---------------------------- MODULE Spec2Model ----------------------------
(***************************************************************************)
(* Lead-capture form: the submit handler of LeadCaptureForm.tsx, the       *)
(* session identity helpers of lib/session.ts and the collaborators they   *)
(* talk to (local storage, the leads table, the send-confirmation          *)
(* function, the lead store).                                              *)
(*                                                                         *)
(* Text values on which the code computes (name, email, session id) are    *)
(* sequences of one-character strings; enumerated values (industry,        *)
(* field names, messages) are plain strings.                               *)
(***************************************************************************)
EXTENDS Integers, Sequences, FiniteSets, TLC

(* ------------------------------ bounds --------------------------------- *)
\* number of leads inserts issued in a behaviour
MaxSubmits == 2
\* largest value read from Date.now()
MaxClock == 1
\* getOrCreateSessionId calls since the last clear are counted up to MaxCalls
MaxCalls == 3
\* Math.random() takes the values m/36, m in 0..MaxRand
MaxRand == 1
\* number of clearSessionId calls in a behaviour
MaxClears == 2
\* number of page reloads in a behaviour
MaxReloads == 1
\* rows in the leads table before the industry migration
MaxRows == 2
\* inserts into the leads table after the industry migration
MaxInserts == 3

(* ------------------------------ text ----------------------------------- *)
\* JavaScript null (localStorage.getItem on an absent key)
null == <<"null">>

EmptyStr == <<>>

Whitespace == {" "}

RECURSIVE TrimStart(_)
TrimStart(s) ==
    IF s # <<>> /\ Head(s) \in Whitespace THEN TrimStart(Tail(s)) ELSE s

RECURSIVE TrimEnd(_)
TrimEnd(s) ==
    IF s # <<>> /\ s[Len(s)] \in Whitespace
    THEN TrimEnd(SubSeq(s, 1, Len(s) - 1)) ELSE s

\* String.prototype.trim
Trim(s) == TrimEnd(TrimStart(s))

\* String.prototype.substr(start, length)
Substr(s, start, length) ==
    SubSeq(s, start + 1, IF start + length < Len(s) THEN start + length ELSE Len(s))

DigitChars == <<"0", "1", "2", "3", "4", "5", "6", "7", "8", "9">>

Base36Chars ==
    DigitChars \o <<"a", "b", "c", "d", "e", "f", "g", "h", "i", "j", "k", "l", "m",
                    "n", "o", "p", "q", "r", "s", "t", "u", "v", "w", "x", "y", "z">>

\* template-literal conversion of the number Date.now()
RECURSIVE NumberToString(_)
NumberToString(n) ==
    IF n < 10 THEN <<DigitChars[n + 1]>>
    ELSE NumberToString(n \div 10) \o <<DigitChars[(n % 10) + 1]>>

\* (m/36).toString(36): "0" for zero, "0.<digit>" otherwise
RandomToString36(m) ==
    IF m = 0 THEN <<"0">> ELSE <<"0", ".", Base36Chars[m + 1]>>

(* ------------------------------ inputs --------------------------------- *)
Names == {<<>>, <<" ">>, <<"A", "n", "a">>}

Emails == {<<>>, <<"b", "a", "d">>, <<"a", "@", "x", ".", "c">>}

ValidNames == {<<"A", "n", "a">>}

ValidEmails == {<<"a", "@", "x", ".", "c">>}

\* the values of the SelectItem elements
IndustryOptions ==
    {"technology", "healthcare", "finance", "education", "retail",
     "manufacturing", "consulting", "other"}

\* the options the modelled user picks
IndustryChoices == {"technology"}

Fields == {"name", "email", "industry"}

EmptyForm == [name |-> <<>>, email |-> <<>>, industry |-> ""]

(* ------------------------------ state ---------------------------------- *)
VARIABLES
    formData,          \* useState: the three form fields
    validationErrors,  \* useState: sequence of [field, message]
    isSubmitting,      \* useState: the in-flight flag
    submitted,         \* lead store: submitted flag
    sessionLeads,      \* lead store: leads of this page lifetime
    storage,           \* localStorage item 'lead_capture_session_id', or null
    storageOk,         \* FALSE when localStorage access throws
    now,               \* the last value read from the clock
    inflight,          \* suspended handleSubmit invocations
    dbLog,             \* inserts sent to the leads table, with their results
    fnLog,             \* send-confirmation invocations, with their results
    page,              \* page lifetime number
    epoch,             \* number of clearSessionId calls so far
    genLog,            \* identifiers generated so far: [t, m, id]
    rets,              \* values returned by getOrCreateSessionId since the last clear
    calls,             \* calls of getOrCreateSessionId since the last clear
    writes,            \* setItem calls since the last clear
    atSubmit,          \* what the page showed when the last valid submit began
    lastOp,            \* the operation that produced this state
    leadsTable,        \* public.leads: its rows and its industry column
    mpc,               \* number of the next statement of the industry migration
    mfailed            \* a statement of the migration has failed

\* the database the migration runs on
mvars == <<leadsTable, mpc, mfailed>>

vars == <<formData, validationErrors, isSubmitting, submitted, sessionLeads,
          storage, storageOk, now, inflight, dbLog, fnLog, page, epoch,
          genLog, rets, calls, writes, atSubmit, lastOp, leadsTable, mpc, mfailed>>

\* what the component and its parent render from
View == <<formData, validationErrors, isSubmitting, submitted, sessionLeads>>

(* ------------------------- lib/session.ts ------------------------------ *)
\* an identifier without the time component
generateSessionId_noTime(t, m) ==
    <<"s", "e", "s", "s", "i", "o", "n", "_">> \o <<"_">>
        \o Substr(RandomToString36(m), 2, 9)

generateSessionId(t, m) ==
    <<"s", "e", "s", "s", "i", "o", "n", "_">> \o NumberToString(t) \o <<"_">>
        \o Substr(RandomToString36(m), 2, 9)

\* JavaScript !x for a string-or-null
Falsy(x) == x = null \/ x = EmptyStr

\* the lookup without the creation on demand
getOrCreateSessionId_noCreate(item, t, m) == [ret |-> item, item |-> item]

\* the creation without the setItem
getOrCreateSessionId_noStore(item, t, m) ==
    IF item = null \/ item = EmptyStr
    THEN [ret |-> generateSessionId(t, m), item |-> item]
    ELSE [ret |-> item, item |-> item]

\* result of one call on the stored item: the value returned and the item left
getOrCreateSessionId(item, t, m) ==
    IF Falsy(item)
    THEN [ret |-> generateSessionId(t, m), item |-> generateSessionId(t, m)]
    ELSE [ret |-> item, item |-> item]

\* the item left by localStorage.removeItem
clearSessionId(item) == null


(* ------------------------- lib/validation.ts --------------------------- *)
\* a standard email shape: local@domain.tld, no whitespace, one "@"
EmailShape(s) ==
    /\ \A i \in 1..Len(s) : s[i] \notin Whitespace
    /\ Cardinality({i \in 1..Len(s) : s[i] = "@"}) = 1
    /\ \E i \in 2..Len(s) :
          /\ s[i] = "@"
          /\ \E j \in (i + 2)..(Len(s) - 1) : s[j] = "."

NameErrors(fields) ==
    IF Trim(fields.name) = EmptyStr
    THEN <<[field |-> "name", message |-> "required"]>> ELSE <<>>

EmailErrors(fields) ==
    IF fields.email = EmptyStr
    THEN <<[field |-> "email", message |-> "required"]>>
    ELSE IF ~EmailShape(fields.email)
         THEN <<[field |-> "email", message |-> "format"]>> ELSE <<>>

IndustryErrors(fields) ==
    IF fields.industry \notin IndustryOptions
    THEN <<[field |-> "industry", message |-> "required"]>> ELSE <<>>

validateLeadForm(fields) ==
    NameErrors(fields) \o EmailErrors(fields) \o IndustryErrors(fields)

(* ------------------------- lib/lead-store.ts --------------------------- *)
addLead(leads, lead) == Append(leads, lead)

setSubmitted(value) == value

(* ------------------------- LeadCaptureForm.tsx ------------------------- *)
\* a submit button that is never disabled
SubmitEnabled_always == TRUE

\* the submit Button is disabled while isSubmitting
SubmitEnabled == ~isSubmitting

\* the inputs and the Select are disabled while isSubmitting
InputEnabled == ~isSubmitting

\* a handler that goes on whatever the validator returned
ShouldSubmit_always(errors) == TRUE

\* if (errors.length === 0)
ShouldSubmit(errors) == Len(errors) = 0

\* a dbError branch that only logs
ThrowsOnDbError_swallowed == FALSE

\* if (dbError) { ...; throw new Error(...) }
ThrowsOnDbError == TRUE

\* an emailError branch that throws
ThrowsOnEmailError_thrown == TRUE

\* if (emailError) { console.error(...) }  -- "Don't throw here"
ThrowsOnEmailError == FALSE

\* the row handed to supabase.from('leads').insert
InsertRow(fd, sessionId) ==
    [name |-> fd.name, email |-> fd.email, industry |-> fd.industry,
     session_id |-> sessionId]

\* the body handed to supabase.functions.invoke('send-confirmation')
InvokeBody(fd) ==
    [name |-> fd.name, email |-> fd.email, industry |-> fd.industry]

\* a lead built without the session identifier
MakeLead_noSession(fd, sessionId, t) ==
    [name |-> fd.name, email |-> fd.email, industry |-> fd.industry,
     submitted_at |-> t, session_id |-> null]

\* const lead = { ... }
MakeLead(fd, sessionId, t) ==
    [name |-> fd.name, email |-> fd.email, industry |-> fd.industry,
     submitted_at |-> t, session_id |-> sessionId]

\* an input change that drops the errors of every field
FilterField_all(errors, field) == <<>>

\* setValidationErrors(prev => prev.filter(error => error.field !== field))
RECURSIVE FilterField(_, _)
FilterField(errors, field) ==
    IF errors = <<>> THEN <<>>
    ELSE IF Head(errors).field = field THEN FilterField(Tail(errors), field)
         ELSE <<Head(errors)>> \o FilterField(Tail(errors), field)

\* bookkeeping shared by every call of getOrCreateSessionId
SessionCall(t, m) ==
    LET r == getOrCreateSessionId(storage, t, m) IN
    /\ storage' = r.item
    /\ rets' = rets \cup {r.ret}
    /\ calls' = IF calls < MaxCalls THEN calls + 1 ELSE calls
    /\ writes' = IF r.item # storage THEN writes + 1 ELSE writes
    /\ IF Falsy(storage)
       THEN /\ now' = t
            /\ genLog' = genLog \cup {[t |-> t, m |-> m, id |-> r.ret]}
       ELSE UNCHANGED <<now, genLog>>

(* ---------------- migrations/20250710135108-...sql ---------------------- *)
SqlNull == "NULL"

\* the industry column: absent before the migration
NoColumn == [exists |-> FALSE, notNull |-> FALSE, default |-> SqlNull]

\* ALTER TABLE public.leads ADD COLUMN industry TEXT
AddColumn(t) ==
    IF t.column.exists
    THEN [ok |-> FALSE, table |-> t]
    ELSE [ok |-> TRUE,
          table |-> [rows |-> [i \in DOMAIN t.rows |->
                                 [t.rows[i] EXCEPT !.industry = SqlNull]],
                     column |-> [exists |-> TRUE, notNull |-> FALSE,
                                 default |-> SqlNull]]]

\* UPDATE public.leads SET industry = 'Other' WHERE industry IS NULL
Backfill(t) ==
    IF ~t.column.exists
    THEN [ok |-> FALSE, table |-> t]
    ELSE [ok |-> TRUE,
          table |-> [t EXCEPT !.rows =
                        [i \in DOMAIN t.rows |->
                           IF t.rows[i].industry = SqlNull
                           THEN [t.rows[i] EXCEPT !.industry = "Other"]
                           ELSE t.rows[i]]]]

\* ALTER TABLE public.leads ALTER COLUMN industry SET NOT NULL
SetNotNull(t) ==
    IF ~t.column.exists \/ \E i \in DOMAIN t.rows : t.rows[i].industry = SqlNull
    THEN [ok |-> FALSE, table |-> t]
    ELSE [ok |-> TRUE, table |-> [t EXCEPT !.column.notNull = TRUE]]

\* ALTER TABLE public.leads ALTER COLUMN industry SET DEFAULT 'Other'
SetDefault(t) ==
    IF ~t.column.exists
    THEN [ok |-> FALSE, table |-> t]
    ELSE [ok |-> TRUE, table |-> [t EXCEPT !.column.default = "Other"]]

\* the NOT NULL constraint enforced before the rows are backfilled
MigrationPhases_notNullFirst == <<"addColumn", "setNotNull", "backfill", "setDefault">>

\* the statements of the migration file, in the order of the file
MigrationPhases == <<"addColumn", "backfill", "setNotNull", "setDefault">>

Exec(stmt, t) ==
    CASE stmt = "addColumn" -> AddColumn(t)
      [] stmt = "backfill" -> Backfill(t)
      [] stmt = "setNotNull" -> SetNotNull(t)
      [] stmt = "setDefault" -> SetDefault(t)

\* INSERT INTO public.leads: industry given, or omitted and taken from the default
InsertInto(t, given, industry) ==
    LET value == IF given THEN industry ELSE t.column.default IN
    IF t.column.notNull /\ value = SqlNull
    THEN [ok |-> FALSE, table |-> t]
    ELSE [ok |-> TRUE,
          table |-> [t EXCEPT !.rows =
                        Append(t.rows, [origin |-> IF given THEN "given" ELSE "omitted",
                                        industry |-> value])]]

\* a row stored before the table had an industry column
OldRow == [origin |-> "existing", industry |-> "none"]

TypeOK ==
    /\ formData \in [name : Names, email : Emails, industry : IndustryChoices \cup {""}]
    /\ isSubmitting \in BOOLEAN
    /\ submitted \in BOOLEAN
    /\ storageOk \in BOOLEAN
    /\ now \in 0..MaxClock
    /\ page \in 0..MaxReloads
    /\ epoch \in 0..MaxClears
    /\ Len(dbLog) <= MaxSubmits
    /\ Len(fnLog) <= MaxSubmits
    /\ Len(sessionLeads) <= MaxSubmits
    /\ mpc \in 1..(Len(MigrationPhases) + 1)
    /\ mfailed \in BOOLEAN
    /\ leadsTable.column.exists \in BOOLEAN
    /\ Len(leadsTable.rows) <= MaxRows + MaxInserts

\* the page after mount
AppInit ==
    /\ formData = EmptyForm
    /\ validationErrors = <<>>
    /\ isSubmitting = FALSE
    /\ submitted = FALSE
    /\ sessionLeads = <<>>
    /\ storageOk \in BOOLEAN
    /\ now = 0
    /\ \E m \in 0..MaxRand :
          /\ storage \in {null, EmptyStr, generateSessionId(0, m)}
          /\ genLog = IF Falsy(storage) THEN {}
                      ELSE {[t |-> 0, m |-> m, id |-> storage]}
    /\ inflight = {}
    /\ dbLog = <<>>
    /\ fnLog = <<>>
    /\ page = 0
    /\ epoch = 0
    /\ rets = {}
    /\ calls = 0
    /\ writes = 0
    /\ atSubmit = View
    /\ lastOp = "init"

Init ==
    /\ AppInit
    /\ leadsTable = [rows |-> <<>>, column |-> NoColumn]
    /\ mpc = 1
    /\ mfailed = FALSE

\* handleSubmit up to its first await (lines 21-43), or to its end when
\* validation fails or the session lookup throws
handleSubmit ==
    LET errors == validateLeadForm(formData) IN
    /\ validationErrors' = errors
    /\ UNCHANGED mvars
    /\ IF ~ShouldSubmit(errors)
       THEN /\ lastOp' = "submit"
            /\ UNCHANGED <<formData, isSubmitting, submitted, sessionLeads, storage,
                           storageOk, now, inflight, dbLog, fnLog, page, epoch,
                           genLog, rets, calls, writes, atSubmit>>
       ELSE IF ~storageOk
       THEN \* getItem throws: catch, finally setIsSubmitting(false)
            /\ isSubmitting' = FALSE
            /\ lastOp' = "submit"
            /\ UNCHANGED <<formData, submitted, sessionLeads, storage, storageOk,
                           now, inflight, dbLog, fnLog, page, epoch, genLog,
                           rets, calls, writes, atSubmit>>
       ELSE \E t \in now..MaxClock, m \in 0..MaxRand :
            LET r == getOrCreateSessionId(storage, t, m) IN
            /\ Len(dbLog) < MaxSubmits
            /\ isSubmitting' = TRUE
            /\ storage' = r.item
            /\ now' = IF Falsy(storage) THEN t ELSE now
            /\ dbLog' = Append(dbLog, [row |-> InsertRow(formData, r.ret),
                                       result |-> "pending",
                                       page |-> page])
            /\ inflight' = inflight \cup
                   {[id |-> Len(dbLog) + 1, pc |-> "insert", call |-> 0,
                     formData |-> formData, sessionId |-> r.ret]}
            /\ atSubmit' = View
            /\ lastOp' = "submit"
            /\ UNCHANGED <<formData, submitted, sessionLeads, storageOk,
                           fnLog, page, epoch, genLog, rets, calls, writes>>

\* a click on the submit button
Submit ==
    IF SubmitEnabled
    THEN handleSubmit
    ELSE /\ lastOp' = "submitBlocked"
         /\ UNCHANGED mvars
         /\ UNCHANGED <<formData, validationErrors, isSubmitting, submitted,
                        sessionLeads, storage, storageOk, now, inflight, dbLog,
                        fnLog, page, epoch, genLog, rets, calls, writes, atSubmit>>

\* catch that rolls the lead store back
HandlerFails_rollsBack(h) ==
    /\ isSubmitting' = FALSE
    /\ inflight' = inflight \ {h}
    /\ submitted' = FALSE
    /\ sessionLeads' = <<>>
    /\ UNCHANGED <<formData, now>>

\* catch that clears the form as a successful submission does
HandlerFails_resetsForm(h) ==
    /\ isSubmitting' = FALSE
    /\ inflight' = inflight \ {h}
    /\ formData' = EmptyForm
    /\ UNCHANGED <<submitted, sessionLeads, now>>

\* catch without the finally block: the flag is left set
HandlerFails_noFinally(h) ==
    /\ isSubmitting' = isSubmitting
    /\ inflight' = inflight \ {h}
    /\ UNCHANGED <<formData, submitted, sessionLeads, now>>

\* catch (error) { console.error } finally { setIsSubmitting(false) }
HandlerFails(h) ==
    /\ isSubmitting' = FALSE
    /\ inflight' = inflight \ {h}
    /\ UNCHANGED <<formData, submitted, sessionLeads, now>>

\* lines 66-75, then finally { setIsSubmitting(false) }
HandlerSucceeds(h) ==
    /\ \E t \in now..MaxClock :
          /\ now' = t
          /\ sessionLeads' = addLead(sessionLeads, MakeLead(h.formData, h.sessionId, t))
    /\ submitted' = setSubmitted(TRUE)
    /\ formData' = EmptyForm
    /\ isSubmitting' = FALSE
    /\ inflight' = inflight \ {h}

\* the insert returns { data, error }: lines 34-57
InsertReturns(h, dbError) ==
    /\ h \in inflight
    /\ UNCHANGED mvars
    /\ h.pc = "insert"
    /\ dbLog' = [dbLog EXCEPT ![h.id].result = IF dbError THEN "error" ELSE "ok"]
    /\ IF dbError /\ ThrowsOnDbError
       THEN /\ HandlerFails(h)
            /\ lastOp' = "insertFailed"
            /\ UNCHANGED fnLog
       ELSE /\ fnLog' = Append(fnLog, [body |-> InvokeBody(h.formData),
                                       result |-> "pending", id |-> h.id])
            /\ inflight' = (inflight \ {h}) \cup
                   {[h EXCEPT !.pc = "invoke", !.call = Len(fnLog) + 1]}
            /\ lastOp' = "insertOk"
            /\ UNCHANGED <<formData, isSubmitting, submitted, sessionLeads, now>>
    /\ UNCHANGED <<validationErrors, storage, storageOk, page, epoch,
                   genLog, rets, calls, writes, atSubmit>>

\* the invoke returns { error }: lines 51-82
InvokeReturns(h, emailError) ==
    /\ h \in inflight
    /\ UNCHANGED mvars
    /\ h.pc = "invoke"
    /\ fnLog' = [fnLog EXCEPT ![h.call].result = IF emailError THEN "error" ELSE "ok"]
    /\ IF emailError /\ ThrowsOnEmailError
       THEN HandlerFails(h)
       ELSE HandlerSucceeds(h)
    /\ lastOp' = IF emailError THEN "invokeFailed" ELSE "invokeOk"
    /\ UNCHANGED <<validationErrors, storage, storageOk, dbLog, page, epoch,
                   genLog, rets, calls, writes, atSubmit>>

handleInputChange(field, value) ==
    /\ InputEnabled
    /\ UNCHANGED mvars
    /\ formData' = [formData EXCEPT ![field] = value]
    /\ validationErrors' =
          IF \E i \in 1..Len(validationErrors) : validationErrors[i].field = field
          THEN FilterField(validationErrors, field)
          ELSE validationErrors
    /\ lastOp' = "input"
    /\ UNCHANGED <<isSubmitting, submitted, sessionLeads, storage, storageOk, now,
                   inflight, dbLog, fnLog, page, epoch, genLog, rets, calls, writes, atSubmit>>

\* the user edits one field
InputChangeFrom(names, emails, industries) ==
    \/ \E v \in names : handleInputChange("name", v)
    \/ \E v \in emails : handleInputChange("email", v)
    \/ \E v \in industries : handleInputChange("industry", v)

InputChange == InputChangeFrom(Names, Emails, IndustryChoices)

\* the user edits one field and enters a value that passes validation
InputValid == InputChangeFrom(ValidNames, ValidEmails, IndustryChoices)

\* a call of getOrCreateSessionId from outside the form
GetOrCreate ==
    /\ storageOk
    /\ UNCHANGED mvars
    /\ \E t \in now..MaxClock, m \in 0..MaxRand : SessionCall(t, m)
    /\ lastOp' = "getOrCreate"
    /\ UNCHANGED <<formData, validationErrors, isSubmitting, submitted,
                   sessionLeads, storageOk, inflight, dbLog, fnLog, page,
                   epoch, atSubmit>>

\* a call of clearSessionId
Clear ==
    /\ storageOk
    /\ UNCHANGED mvars
    /\ epoch < MaxClears
    /\ storage' = clearSessionId(storage)
    /\ epoch' = epoch + 1
    /\ rets' = {}
    /\ calls' = 0
    /\ writes' = 0
    /\ lastOp' = "clear"
    /\ UNCHANGED <<formData, validationErrors, isSubmitting, submitted,
                   sessionLeads, storageOk, now, inflight, dbLog, fnLog, page,
                   genLog, atSubmit>>

\* the page is reloaded: component state and the store start over, the
\* suspended handlers are gone, local storage stays
Reload ==
    /\ page < MaxReloads
    /\ UNCHANGED mvars
    /\ page' = page + 1
    /\ formData' = EmptyForm
    /\ validationErrors' = <<>>
    /\ isSubmitting' = FALSE
    /\ submitted' = FALSE
    /\ sessionLeads' = <<>>
    /\ inflight' = {}
    /\ atSubmit' = <<EmptyForm, <<>>, FALSE, FALSE, <<>>>>
    /\ lastOp' = "reload"
    /\ UNCHANGED <<storage, storageOk, now, dbLog, fnLog, epoch, genLog, rets, calls, writes>>

InsertOk == \E h \in inflight : InsertReturns(h, FALSE)

InsertError == \E h \in inflight : InsertReturns(h, TRUE)

InvokeOk == \E h \in inflight : InvokeReturns(h, FALSE)

InvokeError == \E h \in inflight : InvokeReturns(h, TRUE)

\* the form in one page lifetime; the only writer of the session key is
\* handleSubmit's own getOrCreateSessionId (the form never calls clearSessionId)
Next ==
    \/ Submit
    \/ InsertOk
    \/ InsertError
    \/ InvokeOk
    \/ InvokeError
    \/ InputChange

Spec == Init /\ [][Next]_vars

\* the form over page reloads, filled in with values that pass validation
LifetimeNext ==
    \/ Submit
    \/ InsertOk
    \/ InsertError
    \/ InvokeOk
    \/ InvokeError
    \/ InputValid
    \/ Reload

LifetimeSpec == Init /\ [][LifetimeNext]_vars

\* lib/session.ts on its own, called by an arbitrary client
SessionNext ==
    \/ GetOrCreate
    \/ Clear

SessionSpec == Init /\ [][SessionNext]_vars

\* the leads table holds any number of rows when the migration starts
MigrationInit ==
    /\ AppInit
    /\ storageOk
    /\ storage = null
    /\ \E n \in 0..MaxRows :
          leadsTable = [rows |-> [i \in 1..n |-> OldRow], column |-> NoColumn]
    /\ mpc = 1
    /\ mfailed = FALSE

\* the next statement of the migration file runs; a failure stops the file
RunStatement ==
    /\ ~mfailed
    /\ mpc <= Len(MigrationPhases)
    /\ LET r == Exec(MigrationPhases[mpc], leadsTable) IN
          /\ leadsTable' = r.table
          /\ mfailed' = ~r.ok
          /\ mpc' = IF r.ok THEN mpc + 1 ELSE mpc
    /\ lastOp' = "migrate"
    /\ UNCHANGED <<formData, validationErrors, isSubmitting, submitted,
                   sessionLeads, storage, storageOk, now, inflight, dbLog, fnLog,
                   page, epoch, genLog, rets, calls, writes, atSubmit>>

\* an insert after the migration, with or without an industry
InsertAfter(given, industry) ==
    /\ ~mfailed
    /\ mpc > Len(MigrationPhases)
    /\ Len(leadsTable.rows) < MaxRows + MaxInserts
    /\ Cardinality({i \in DOMAIN leadsTable.rows : leadsTable.rows[i].origin # "existing"})
          < MaxInserts
    /\ leadsTable' = InsertInto(leadsTable, given, industry).table
    /\ lastOp' = IF InsertInto(leadsTable, given, industry).ok
                 THEN "insertAfter" ELSE "insertRejected"
    /\ UNCHANGED <<formData, validationErrors, isSubmitting, submitted,
                   sessionLeads, storage, storageOk, now, inflight, dbLog, fnLog,
                   page, epoch, genLog, rets, calls, writes, atSubmit, mpc, mfailed>>

InsertOmitting == InsertAfter(FALSE, SqlNull)

InsertGiving == \E v \in IndustryChoices \cup {"other", SqlNull} : InsertAfter(TRUE, v)

MigrationNext ==
    \/ RunStatement
    \/ InsertOmitting
    \/ InsertGiving

MigrationSpec == MigrationInit /\ [][MigrationNext]_vars

\* every remote call that was issued eventually returns
RemoteCallsReturn ==
    /\ WF_vars(InsertOk \/ InsertError)
    /\ WF_vars(InvokeOk \/ InvokeError)

FairSpec == Init /\ [][Next]_vars /\ RemoteCallsReturn

(* ------------------------------ claims --------------------------------- *)
\* the lead store
Store == <<submitted, sessionLeads>>

\* the insert of submission k returns an error in this step
InsertFailsAt(k) == dbLog[k].result = "pending" /\ dbLog'[k].result = "error"

\* the invoke numbered k returns in this step with the given result
InvokeEndsAt(k, result) == fnLog[k].result = "pending" /\ fnLog'[k].result = result

\* the lead of the submission whose insert was number k, up to its timestamp
IsLeadOf(lead, k) ==
    /\ lead.name = dbLog[k].row.name
    /\ lead.email = dbLog[k].row.email
    /\ lead.industry = dbLog[k].row.industry

\* C1: when the insert of a valid submission returns an error, the submission
\* ends there and the lead store is what it was when the submit began: no lead
\* is appended and submitted keeps its value.
C1_FailedInsertLeavesStore ==
    [][\A k \in DOMAIN dbLog :
          InsertFailsAt(k) =>
             /\ Store' = Store
             /\ Store' = <<atSubmit[4], atSubmit[5]>>
             /\ ~\E h \in inflight' : h.id = k]_vars

\* C1 witness: an insert has failed after an earlier submission had succeeded
C1_Witness ==
    /\ lastOp = "insertFailed"
    /\ submitted
    /\ Len(sessionLeads) = 1

\* C2: when the insert succeeded and the invoke returns an error, the
\* submission still ends with its lead appended and submitted = TRUE.
C2_FailedInvokeStillRecords ==
    [][\A k \in DOMAIN fnLog :
          InvokeEndsAt(k, "error") =>
             /\ Len(sessionLeads') = Len(sessionLeads) + 1
             /\ SubSeq(sessionLeads', 1, Len(sessionLeads)) = sessionLeads
             /\ IsLeadOf(sessionLeads'[Len(sessionLeads')], fnLog[k].id)
             /\ sessionLeads'[Len(sessionLeads')].session_id
                   = dbLog[fnLog[k].id].row.session_id
             /\ dbLog[fnLog[k].id].result = "ok"
             /\ submitted' = TRUE]_vars

\* C2 witness: an invoke has failed and the lead is in the store
C2_Witness ==
    /\ lastOp = "invokeFailed"
    /\ submitted
    /\ sessionLeads # <<>>

\* remote calls that have not returned
PendingCalls ==
    Cardinality({k \in DOMAIN dbLog : dbLog[k].result = "pending"})
      + Cardinality({k \in DOMAIN fnLog : fnLog[k].result = "pending"})

\* C3: at most one submission is in flight and at most one remote call is
\* pending: a submit request made while a submission is in flight starts
\* neither an insert nor an invoke.
C3_NoReentry ==
    /\ Cardinality(inflight) <= 1
    /\ PendingCalls <= 1
    /\ (inflight # {} => isSubmitting)

\* C3 witness: a submit was requested while a submission was in flight
C3_Witness ==
    /\ lastOp = "submitBlocked"
    /\ inflight # {}
    /\ PendingCalls = 1

\* C4: a submit on which the validator returns errors makes no remote call,
\* stores the validator's errors and leaves the in-flight flag unset.
C4_InvalidSubmitStaysIdle ==
    [][(lastOp' = "submit" /\ validateLeadForm(formData) # <<>>) =>
          /\ validationErrors' = validateLeadForm(formData)
          /\ dbLog' = dbLog
          /\ fnLog' = fnLog
          /\ inflight' = inflight
          /\ isSubmitting' = FALSE
          /\ isSubmitting = FALSE]_vars

\* C4 witness: the empty form was submitted and three errors are displayed
C4_Witness ==
    /\ lastOp = "submit"
    /\ Len(validationErrors) = 3
    /\ dbLog = <<>>
    /\ ~isSubmitting

\* C5: after a submission whose insert failed, the page shows a failure
\* indication: what it renders from differs from what it rendered from
\* before the submit.
C5_FailureVisible ==
    [][\A k \in DOMAIN dbLog : InsertFailsAt(k) => View' # atSubmit]_vars

\* a call of getOrCreateSessionId happens in this step (SessionSpec)
CallStep == lastOp' = "getOrCreate"

\* C6: with no clearSessionId in between, every call of getOrCreateSessionId
\* after the first returns what the first returned and writes nothing.
C6_Idempotent ==
    [][(CallStep /\ calls >= 1) =>
          /\ rets' = rets
          /\ Cardinality(rets') = 1
          /\ storage' = storage
          /\ writes' = writes
          /\ writes <= 1]_vars

\* C6 witness: three calls in a row, the first of which wrote
C6_Witness ==
    /\ lastOp = "getOrCreate"
    /\ calls = 3
    /\ writes = 1
    /\ rets = {storage}

\* identifiers issued so far in this storage scope
Issued == {g.id : g \in genLog}

\* C7 as stated: the identifier generated after a clear differs from every
\* identifier issued before.
C7_AlwaysFresh ==
    [][(CallStep /\ epoch >= 1 /\ calls = 0) => storage' \notin Issued]_vars

\* C7 as amended: after clearSessionId the item is absent; the next call
\* generates an identifier and stores it; two generated identifiers are equal
\* only if both the clock reading and the random draw were equal.
C7_FreshUnlessSameDraw ==
    /\ lastOp = "clear" => storage = null
    /\ (epoch >= 1 /\ calls >= 1) =>
          /\ ~Falsy(storage)
          /\ rets = {storage}
          /\ storage \in Issued
    /\ \A g, h \in genLog : g.id = h.id => (g.t = h.t /\ g.m = h.m)

\* C7 witness: a call after a clear has stored an identifier unlike an earlier one
C7_Witness ==
    /\ epoch >= 1
    /\ calls >= 1
    /\ lastOp = "getOrCreate"
    /\ \E g \in genLog : g.id # storage

\* C8: every row sent to the leads table and every lead in the store carries
\* a session identifier that is neither null nor empty.
C8_SessionIdPresent ==
    /\ \A k \in DOMAIN dbLog : ~Falsy(dbLog[k].row.session_id)
    /\ \A i \in DOMAIN sessionLeads : ~Falsy(sessionLeads[i].session_id)

\* C8 witness: a lead is in the store although local storage held no
\* identifier (absent or empty) to begin with
C8_Witness ==
    /\ genLog = {}
    /\ sessionLeads # <<>>
    /\ dbLog # <<>>

\* C9: two successful submissions from the same storage scope persist the
\* same session_id, also across page reloads (no behaviour of LifetimeSpec
\* clears the identifier).
C9_SessionIdReused ==
    \A i, j \in DOMAIN dbLog :
        (dbLog[i].result = "ok" /\ dbLog[j].result = "ok") =>
            dbLog[i].row.session_id = dbLog[j].row.session_id

\* C9 witness: two successful submissions in different page lifetimes
C9_Witness ==
    \E i, j \in DOMAIN dbLog :
        /\ dbLog[i].result = "ok"
        /\ dbLog[j].result = "ok"
        /\ dbLog[i].page # dbLog[j].page

\* C10: when the insert and the invoke both succeed, exactly one lead is
\* appended, with the persisted name, email and industry and the stored
\* session identifier; submitted is TRUE and the form fields are empty.
C10_SuccessfulSubmit ==
    [][\A k \in DOMAIN fnLog :
          InvokeEndsAt(k, "ok") =>
             /\ Len(sessionLeads') = Len(sessionLeads) + 1
             /\ SubSeq(sessionLeads', 1, Len(sessionLeads)) = sessionLeads
             /\ IsLeadOf(sessionLeads'[Len(sessionLeads')], fnLog[k].id)
             /\ sessionLeads'[Len(sessionLeads')].session_id = storage'
             /\ dbLog[fnLog[k].id].row.session_id = storage'
             /\ dbLog[fnLog[k].id].result = "ok"
             /\ submitted' = TRUE
             /\ formData' = EmptyForm
             /\ formData'.name = EmptyStr
             /\ formData'.industry = ""]_vars

\* C10 witness: both calls have succeeded and the lead is in the store
C10_Witness ==
    /\ lastOp = "invokeOk"
    /\ submitted
    /\ formData = EmptyForm
    /\ \E i \in DOMAIN sessionLeads : sessionLeads[i].session_id = storage

\* C11: the migration runs add column, backfill 'Other', set NOT NULL, set
\* default 'Other' in that order and no statement fails, whatever rows the
\* table held; once it has run no row has a null industry, the rows that
\* were there before have 'Other', and an insert that omits industry stores
\* 'Other'.
C11_MigrationSafe ==
    /\ ~mfailed
    /\ SubSeq(MigrationPhases, 1, mpc - 1)
          = SubSeq(<<"addColumn", "backfill", "setNotNull", "setDefault">>, 1, mpc - 1)
    /\ mpc = 5 =>
          /\ leadsTable.column = [exists |-> TRUE, notNull |-> TRUE, default |-> "Other"]
          /\ \A i \in DOMAIN leadsTable.rows :
                /\ leadsTable.rows[i].industry # SqlNull
                /\ leadsTable.rows[i].origin \in {"existing", "omitted"}
                      => leadsTable.rows[i].industry = "Other"

\* C11 witness: the migration has run on a table that held rows, and an
\* insert without industry has been stored since
C11_Witness ==
    /\ mpc = 5
    /\ \E i \in DOMAIN leadsTable.rows : leadsTable.rows[i].origin = "existing"
    /\ \E i \in DOMAIN leadsTable.rows : leadsTable.rows[i].origin = "omitted"

\* C12: within a submission the invoke is issued only after the insert has
\* returned without error: no invoke exists for an insert that failed or has
\* not returned, so the two calls of a submission are never pending together,
\* and a submission issues at most one invoke.
C12_CallsSequential ==
    /\ \A k \in DOMAIN fnLog :
          /\ fnLog[k].id \in DOMAIN dbLog
          /\ dbLog[fnLog[k].id].result = "ok"
    /\ \A j, k \in DOMAIN fnLog : fnLog[j].id = fnLog[k].id => j = k

\* C12 witness: one insert has failed, and the invoke of another submission
\* is pending after its insert returned
C12_Witness ==
    /\ \E k \in DOMAIN dbLog : dbLog[k].result = "error"
    /\ \E k \in DOMAIN fnLog : fnLog[k].result = "pending"
    /\ lastOp = "insertOk"

\* inserts of this page lifetime that returned without error
OkInserts == {k \in DOMAIN dbLog : dbLog[k].page = page /\ dbLog[k].result = "ok"}

\* C13: the store never holds more leads than inserts have succeeded in this
\* page lifetime, every lead in it is the lead of such an insert, and
\* submitted is TRUE only when at least one insert has succeeded.
C13_LeadsBackedByInserts ==
    /\ Len(sessionLeads) <= Cardinality(OkInserts)
    /\ \A i \in DOMAIN sessionLeads :
          \E k \in OkInserts :
             /\ IsLeadOf(sessionLeads[i], k)
             /\ sessionLeads[i].session_id = dbLog[k].row.session_id
    /\ submitted => OkInserts # {}

\* C13 witness: a lead is in the store after a reload, and an insert of the
\* earlier page lifetime had succeeded too
C13_Witness ==
    /\ page = 1
    /\ Len(sessionLeads) = 1
    /\ submitted
    /\ \E k \in DOMAIN dbLog : dbLog[k].page = 0 /\ dbLog[k].result = "ok"

\* C14: when every remote call eventually returns, a submission that has set
\* the in-flight flag eventually ends, with the flag unset and no handler
\* left running, whichever way its calls return.
C14_SubmissionEnds ==
    (isSubmitting \/ inflight # {}) ~> (~isSubmitting /\ inflight = {})

\* C14 witness: a submission that set the flag has ended on a failed insert
\* and the flag is unset again
C14_Witness ==
    /\ lastOp = "insertFailed"
    /\ ~isSubmitting
    /\ inflight = {}
    /\ dbLog # <<>>
    /\ dbLog[Len(dbLog)].result = "error"

\* C15: when the insert of a submission returns an error the form fields
\* stay exactly as they were entered and sent; outside user input the fields
\* change only at the end of a successful submission, which empties them.
C15_FormKeptOnFailure ==
    [][/\ \A k \in DOMAIN dbLog :
             InsertFailsAt(k) =>
                /\ formData' = formData
                /\ formData'.name = dbLog[k].row.name
                /\ formData'.email = dbLog[k].row.email
                /\ formData'.industry = dbLog[k].row.industry
       /\ (formData' # formData /\ lastOp' # "input") =>
             /\ formData' = EmptyForm
             /\ \E k \in DOMAIN fnLog :
                   InvokeEndsAt(k, "ok") \/ InvokeEndsAt(k, "error")
             /\ Len(sessionLeads') = Len(sessionLeads) + 1
             /\ submitted']_vars

\* C15 witness: an insert has failed and the form still holds the values
\* that were sent
C15_Witness ==
    /\ lastOp = "insertFailed"
    /\ formData # EmptyForm
    /\ validateLeadForm(formData) = <<>>
    /\ dbLog[Len(dbLog)].row.name = formData.name

\* the errors of a list that are not about the given field, in their order
ErrorsNotAbout(errors, f) == SelectSeq(errors, LAMBDA e : e.field # f)

\* C16: the displayed errors change only on an input change and on a submit:
\* an input change to field f removes exactly the errors about f and keeps
\* the others, in order; a submit replaces the list by the validator's
\* result on the current fields; every other step leaves the list alone.
C16_ErrorsLifetime ==
    [][IF lastOp' = "input"
       THEN \E f \in Fields :
               /\ \A g \in Fields \ {f} : formData'[g] = formData[g]
               /\ validationErrors' = ErrorsNotAbout(validationErrors, f)
       ELSE IF lastOp' = "submit"
       THEN validationErrors' = validateLeadForm(formData)
       ELSE validationErrors' = validationErrors]_vars

\* C16 witness: after a submit displayed three errors, an input change has
\* removed the error of one field and the other two are still displayed
C16_Witness ==
    /\ lastOp = "input"
    /\ Len(validationErrors) = 2
    /\ validationErrors[1].field = "name"
    /\ validationErrors[2].field = "industry"

\* C17: a submit on which the validator returns errors changes nothing but
\* the displayed error list: the session key is neither created nor
\* rewritten (and a failing local storage is not noticed), the lead store, the
\* form fields, the clock and the remote call logs stay as they were.
C17_InvalidSubmitFrame ==
    [][(lastOp' = "submit" /\ validateLeadForm(formData) # <<>>) =>
          /\ storage' = storage
          /\ Store' = Store
          /\ formData' = formData
          /\ UNCHANGED <<isSubmitting, now, inflight, dbLog, fnLog, page,
                         genLog, rets, calls, writes, atSubmit>>]_vars

\* C17 witness: a partly filled form was submitted and rejected, and the
\* session key has still not been created
C17_Witness ==
    /\ lastOp = "submit"
    /\ validationErrors # <<>>
    /\ formData # EmptyForm
    /\ storage = null
    /\ storageOk

\* C18: within one page lifetime submitted never goes from TRUE back to FALSE
\* and the lead list only grows at its end: its earlier value is a prefix
\* of its later value.
C18_StoreMonotone ==
    [][page' = page =>
          /\ submitted => submitted'
          /\ Len(sessionLeads) <= Len(sessionLeads')
          /\ SubSeq(sessionLeads', 1, Len(sessionLeads)) = sessionLeads]_vars

\* C18 witness: two submissions of one page lifetime have succeeded
C18_Witness ==
    /\ Len(sessionLeads) = 2
    /\ submitted
    /\ lastOp \in {"invokeOk", "invokeFailed"}

=============================================================================
